---- MODULE Spec2Model ----
(***************************************************************************)
(* Model of tool/analyze_common.h (ninja-scan-light):                      *)
(*   - GlobalOptions::spec2istream / spec2ostream, the iostream_pool and   *)
(*     the destructor that flushes and deletes the pooled streams;         *)
(*   - NAVData::encode_N0, the 32-byte N0 packet encoder.                  *)
(*                                                                         *)
(* Specifiers are C strings: a specifier is a pointer to a caller-owned    *)
(* character buffer (an argv element).  The pool is a                      *)
(* std::map<const char *, std::iostream *>, so its keys are the POINTERS   *)
(* (buffer addresses), compared by address, never the characters.          *)
(***************************************************************************)
EXTENDS Integers, Sequences, FiniteSets, TLC

VARIABLES
  mem,            \* caller's specifier buffers: address -> characters, NUL-terminated
  iostream_pool,  \* GlobalOptions::iostream_pool: buffer address -> stream object
  heap,           \* stream objects: std::cin, std::cout, then every new'ed stream
  cerr,           \* what was written to std::cerr so far, in order
  status,         \* "running" | "exited" (exit() was called) | "destroyed" (destructor ran)
  exit_code,      \* argument of exit(), 0 while none was made
  calls,          \* the spec2istream / spec2ostream calls made so far, with what they returned
  nav,            \* the navigation values the NAVData accessors return
  itow,           \* the time stamp handed to encode_N0
  buf,            \* the caller's char buf[32]
  host_le,        \* TRUE on a little-endian host, FALSE on a big-endian one
  written,        \* offsets of buf the last encode_N0 call stored to ({} before any call)
  conv_ub,        \* what this build makes of a floating value the integer type cannot hold
  ref             \* a copy an observer took of the inputs and the packet of one encode call

poolvars == <<mem, iostream_pool, heap, cerr, status, exit_code, calls>>
encvars == <<nav, itow, buf, host_le, written, conv_ub, ref>>
vars ==
  <<mem, iostream_pool, heap, cerr, status, exit_code, calls,
    nav, itow, buf, host_le, written, conv_ub, ref>>

----------------------------------------------------------------------------
(* Bounds *)

\* at most this many spec2istream / spec2ostream calls in one run
MaxCalls == 3

\* Bound: resolve calls in a run of the specification of the encoder beside a pool
MaxPureCalls == 1

----------------------------------------------------------------------------
(* C strings *)

NUL == "NUL"

\* COMPORT_PREFIX when _WIN32 is not defined
COMPORT_PREFIX == <<"/", "d", "e", "v", "/", "t", "t", "y">>

Dash == <<"-">>

\* The C string that starts at index i of buffer b: the characters up to the first NUL.
CStr(b, i) ==
  LET end == CHOOSE k \in i..Len(b) : b[k] = NUL /\ \A j \in i..(k - 1) : b[j] # NUL
  IN  SubSeq(b, i, end - 1)

\* strcmp(s, t): 0 exactly when the two strings are equal (the sign of a
\* non-zero result is not used by the code).
strcmp(s, t) == IF s = t THEN 0 ELSE 1

\* strstr(s, needle): index of the first occurrence of needle in s, 0 for NULL.
strstr(s, needle) ==
  LET hits == {i \in 1..(Len(s) - Len(needle) + 1) :
                 SubSeq(s, i, i + Len(needle) - 1) = needle}
  IN  IF hits = {} THEN 0 ELSE CHOOSE i \in hits : \A j \in hits : i <= j

\* strchr(s, c): index of the first c in s, 0 for NULL.
strchr(s, c) ==
  LET hits == {i \in 1..Len(s) : s[i] = c}
  IN  IF hits = {} THEN 0 ELSE CHOOSE i \in hits : \A j \in hits : i <= j

DigitChars == <<"0", "1", "2", "3", "4", "5", "6", "7", "8", "9">>

IsDigit(c) == \E d \in 1..10 : DigitChars[d] = c

DigitVal(c) == (CHOOSE d \in 1..10 : DigitChars[d] = c) - 1

\* atoi(s) for an unsigned decimal text: the value of the leading digits.
RECURSIVE atoi_acc(_, _)
atoi_acc(s, acc) ==
  IF s = <<>> \/ ~IsDigit(Head(s)) THEN acc
  ELSE atoi_acc(Tail(s), acc * 10 + DigitVal(Head(s)))

atoi(s) == atoi_acc(s, 0)

----------------------------------------------------------------------------
(* Stream objects *)

\* std::cin and std::cout: static objects, never new'ed
CIN == 1
COUT == 2

\* Value of `ret` in a call record when the call did not return (exit()).
NoReturn == 0

StdStream(name) ==
  [kind |-> "std", name |-> name, mode |-> "std", failed |-> FALSE,
   baud |-> 0, flushed |-> 0, deleted |-> 0]

\* new ComportStream(spec)
NewComport(name) ==
  [kind |-> "com", name |-> name, mode |-> "io", failed |-> FALSE,
   baud |-> 0, flushed |-> 0, deleted |-> 0]

\* new std::fstream(spec, mode | std::ios::binary)
NewFstream(name, mode, failed) ==
  [kind |-> "file", name |-> name, mode |-> mode, failed |-> failed,
   baud |-> 0, flushed |-> 0, deleted |-> 0]

\* iostream_pool.find(spec) == iostream_pool.end(): the key is the pointer
pool_absent(pool, spec) == spec \notin DOMAIN pool

\* iostream_pool[spec] = stream: insert, or overwrite the entry of that pointer
pool_assign(pool, spec, stream) ==
  [k \in (DOMAIN pool) \cup {spec} |-> IF k = spec THEN stream ELSE pool[k]]

\* std::cerr << item
Lit(text) == <<text, <<>>>>
Txt(s) == <<"spec", s>>
Endl == Lit("endl")

Call(fn, spec, force, ret) ==
  [fn |-> fn, spec |-> spec, text |-> CStr(mem[spec], 1), force |-> force, ret |-> ret]

----------------------------------------------------------------------------
(* Caller's buffers: each layout is one argument vector *)

Buf(text) == text \o <<NUL>>

S_tty == COMPORT_PREFIX \o <<"S", "0">>
S_tty9600 == S_tty \o <<":", "9", "6", "0", "0">>
S_tty19200 == S_tty \o <<":", "1", "9", "2", "0", "0">>
S_file == <<"a", ".", "b", "i", "n">>
S_dashx == <<"-", "x">>
S_mid == <<"x">> \o COMPORT_PREFIX

ArgvLayouts ==
  { <<Buf(Dash), Buf(S_tty9600), Buf(S_tty)>>,
    <<Buf(S_tty9600), Buf(S_tty19200), Buf(S_file)>>,
    <<Buf(S_file), Buf(S_file), Buf(S_dashx)>>,
    <<Buf(S_mid), Buf(Dash), Buf(S_tty19200)>> }

\* What ComportStream::buffer().set_baudrate() may answer: the rate the device took.
DeviceBaudrates == {9600, 19200}

----------------------------------------------------------------------------
(* GlobalOptions::set_baudrate *)

set_baudrate_never_fails(baudrate_spec, devret) == FALSE

\* baudrate != com.buffer().set_baudrate(baudrate)
set_baudrate_fails(baudrate_spec, devret) == atoi(baudrate_spec) # devret

----------------------------------------------------------------------------
(* spec2istream / spec2ostream *)

is_stdio_never(spec, force_fstream) == FALSE

\* if(!force_fstream){ if(strcmp(spec, "-") == 0){
is_stdio(spec, force_fstream) ==
  ~force_fstream /\ strcmp(CStr(mem[spec], 1), Dash) = 0

is_comport_anywhere(spec, force_fstream) ==
  ~force_fstream /\ strstr(CStr(mem[spec], 1), COMPORT_PREFIX) # 0

\* }else if(strstr(spec, COMPORT_PREFIX) == spec){
is_comport(spec, force_fstream) ==
  ~force_fstream /\ strstr(CStr(mem[spec], 1), COMPORT_PREFIX) = 1

\* '-' stands for standard input / output: print the tag, return the stream.
StdBranchPooled(fn, spec, tag, stream) ==
  /\ cerr' = cerr \o <<Lit(tag), Endl>>
  /\ iostream_pool' = pool_assign(iostream_pool, spec, stream)
  /\ calls' = Append(calls, Call(fn, spec, FALSE, stream))
  /\ UNCHANGED <<mem, heap, status, exit_code>>

StdBranch(fn, spec, tag, stream) ==
  /\ cerr' = cerr \o <<Lit(tag), Endl>>
  /\ calls' = Append(calls, Call(fn, spec, FALSE, stream))
  /\ UNCHANGED <<mem, iostream_pool, heap, status, exit_code>>

\* COM ports, COM_name[:baudrate]: the ':' is overwritten by NUL in the caller's
\* buffer, the pool is searched for the pointer, and a stream is created on a miss.
ComBranch(fn, spec) ==
  LET s == CStr(mem[spec], 1)
      colon == strchr(s, ":")
      mem1 == IF colon # 0 THEN [mem EXCEPT ![spec][colon] = NUL] ELSE mem
      name == CStr(mem1[spec], 1)
      baudrate_spec == CStr(mem1[spec], colon + 1)
      id == Len(heap) + 1
  IN  /\ mem' = mem1
      /\ IF pool_absent(iostream_pool, spec)
         THEN IF colon # 0
              THEN \E devret \in DeviceBaudrates :
                     /\ heap' = Append(heap, [NewComport(name) EXCEPT !.baud = devret])
                     /\ IF set_baudrate_fails(baudrate_spec, devret)
                        THEN /\ cerr' = cerr \o <<Txt(s), Endl,
                                                  Lit(" => Unsupported baudrate!!"), Endl>>
                             /\ status' = "exited"
                             /\ exit_code' = -1
                             /\ calls' = Append(calls, Call(fn, spec, FALSE, NoReturn))
                             /\ UNCHANGED iostream_pool
                        ELSE /\ cerr' = cerr \o <<Txt(s), Endl>>
                             /\ iostream_pool' = pool_assign(iostream_pool, spec, id)
                             /\ calls' = Append(calls, Call(fn, spec, FALSE, id))
                             /\ UNCHANGED <<status, exit_code>>
              ELSE /\ heap' = Append(heap, NewComport(name))
                   /\ cerr' = cerr \o <<Txt(s), Endl>>
                   /\ iostream_pool' = pool_assign(iostream_pool, spec, id)
                   /\ calls' = Append(calls, Call(fn, spec, FALSE, id))
                   /\ UNCHANGED <<status, exit_code>>
         ELSE /\ cerr' = cerr \o <<Txt(s), Endl>>
              /\ calls' = Append(calls, Call(fn, spec, FALSE, iostream_pool[spec]))
              /\ UNCHANGED <<iostream_pool, heap, status, exit_code>>

fin_fail_unchecked(failed) == FALSE

\* if(fin->fail()){ ... exit(-1); }
fin_fail_checked(failed) == failed

FileInReleasesOld(spec, force_fstream) ==
  \E failed \in BOOLEAN :
    LET s == CStr(mem[spec], 1)
        id == Len(heap) + 1
        heap1 == IF pool_absent(iostream_pool, spec)
                 THEN heap
                 ELSE [heap EXCEPT ![iostream_pool[spec]].flushed = @ + 1,
                                   ![iostream_pool[spec]].deleted = @ + 1]
    IN  /\ heap' = Append(heap1, NewFstream(s, "in", failed))
        /\ IF fin_fail_checked(failed)
           THEN /\ cerr' = cerr \o <<Txt(s), Lit(" => File not found!!"), Endl>>
                /\ status' = "exited"
                /\ exit_code' = -1
                /\ calls' = Append(calls, Call("spec2istream", spec, force_fstream, NoReturn))
                /\ UNCHANGED <<mem, iostream_pool>>
           ELSE /\ cerr' = cerr \o <<Txt(s), Endl>>
                /\ iostream_pool' = pool_assign(iostream_pool, spec, id)
                /\ calls' = Append(calls, Call("spec2istream", spec, force_fstream, id))
                /\ UNCHANGED <<mem, status, exit_code>>

\* The file branch of spec2istream: always a new std::fstream, never a pool lookup.
FileIn(spec, force_fstream) ==
  \E failed \in BOOLEAN :
    LET s == CStr(mem[spec], 1)
        id == Len(heap) + 1
    IN  /\ heap' = Append(heap, NewFstream(s, "in", failed))
        /\ IF fin_fail_checked(failed)
           THEN /\ cerr' = cerr \o <<Txt(s), Lit(" => File not found!!"), Endl>>
                /\ status' = "exited"
                /\ exit_code' = -1
                /\ calls' = Append(calls, Call("spec2istream", spec, force_fstream, NoReturn))
                /\ UNCHANGED <<mem, iostream_pool>>
           ELSE /\ cerr' = cerr \o <<Txt(s), Endl>>
                /\ iostream_pool' = pool_assign(iostream_pool, spec, id)
                /\ calls' = Append(calls, Call("spec2istream", spec, force_fstream, id))
                /\ UNCHANGED <<mem, status, exit_code>>

FileOutChecked(spec, force_fstream) ==
  \E failed \in BOOLEAN :
    LET s == CStr(mem[spec], 1)
        id == Len(heap) + 1
    IN  /\ heap' = Append(heap, NewFstream(s, "out", failed))
        /\ IF failed
           THEN /\ cerr' = cerr \o <<Txt(s), Lit(" => File not found!!"), Endl>>
                /\ status' = "exited"
                /\ exit_code' = -1
                /\ calls' = Append(calls, Call("spec2ostream", spec, force_fstream, NoReturn))
                /\ UNCHANGED <<mem, iostream_pool>>
           ELSE /\ cerr' = cerr \o <<Txt(s), Endl>>
                /\ iostream_pool' = pool_assign(iostream_pool, spec, id)
                /\ calls' = Append(calls, Call("spec2ostream", spec, force_fstream, id))
                /\ UNCHANGED <<mem, status, exit_code>>

\* The file branch of spec2ostream: the stream's state is not tested.
FileOut(spec, force_fstream) ==
  \E failed \in BOOLEAN :
    LET s == CStr(mem[spec], 1)
        id == Len(heap) + 1
    IN  /\ heap' = Append(heap, NewFstream(s, "out", failed))
        /\ cerr' = cerr \o <<Txt(s), Endl>>
        /\ iostream_pool' = pool_assign(iostream_pool, spec, id)
        /\ calls' = Append(calls, Call("spec2ostream", spec, force_fstream, id))
        /\ UNCHANGED <<mem, status, exit_code>>

spec2istream(spec, force_fstream) ==
  /\ status = "running"
  /\ Len(calls) < MaxCalls
  /\ IF is_stdio(spec, force_fstream)
     THEN StdBranch("spec2istream", spec, "[std::cin]", CIN)
     ELSE IF is_comport(spec, force_fstream)
          THEN ComBranch("spec2istream", spec)
          ELSE FileIn(spec, force_fstream)
  /\ UNCHANGED encvars

spec2ostream(spec, force_fstream) ==
  /\ status = "running"
  /\ Len(calls) < MaxCalls
  /\ IF is_stdio(spec, force_fstream)
     THEN StdBranch("spec2ostream", spec, "[std::cout]", COUT)
     ELSE IF is_comport(spec, force_fstream)
          THEN ComBranch("spec2ostream", spec)
          ELSE FileOut(spec, force_fstream)
  /\ UNCHANGED encvars

\* ~GlobalOptions(): flush and delete every pooled stream, once per pool entry.
Destructor ==
  /\ status = "running"
  /\ heap' = [i \in DOMAIN heap |->
                LET n == Cardinality({k \in DOMAIN iostream_pool : iostream_pool[k] = i})
                IN  [heap[i] EXCEPT !.flushed = @ + n, !.deleted = @ + n]]
  /\ status' = "destroyed"
  /\ UNCHANGED <<mem, iostream_pool, cerr, exit_code, calls>>
  /\ UNCHANGED encvars

----------------------------------------------------------------------------
(* Numbers: float_sylph_t values are modelled as exact rationals n/d         *)
(* (rounding of the floating-point product is not modelled).  An angle in    *)
(* radians is held as its coefficient of pi: Q(1, 18) stands for pi/18 rad.  *)

RECURSIVE GCD(_, _)
GCD(a, b) == IF b = 0 THEN a ELSE GCD(b, a % b)

Abs(x) == IF x < 0 THEN -x ELSE x

Q(n, d) == LET g == GCD(Abs(n), d) IN [n |-> n \div g, d |-> d \div g]

\* q * k for an integer k
QMul(q, k) == LET g == GCD(q.d, k) IN [n |-> q.n * (k \div g), d |-> q.d \div g]

\* radians * 180 / M_PI, the radians given as a coefficient of pi
rad2deg(radians) == QMul(radians, 180)

\* Conversion of a floating value to an integer type discards the fraction
\* (rounds toward zero).
Trunc(q) == IF q.n >= 0 THEN q.n \div q.d ELSE -((-q.n) \div q.d)

\* The w bytes of the two's complement representation of v, least significant first.
Digits(v, w) == [i \in 1..w |-> (v \div (256 ^ (i - 1))) % 256]

\* typedef unsigned int v_u32_t; typedef int v_s32_t; typedef short v_s16_t;
Width(type) == IF type = "s16" THEN 2 ELSE 4

\* Whether the truncated value is representable in the type.  (Every integer the
\* model can hold is below 2^31, so only the lower end of v_u32_t and both ends of
\* v_s16_t can be left.)
Representable(v, type) ==
  CASE type = "u32" -> v >= 0
    [] type = "s32" -> TRUE
    [] type = "s16" -> v >= -32768 /\ v <= 32767

\* Largest / smallest value of the type, as bytes
Saturated(v, type) ==
  CASE type = "u32" -> IF v < 0 THEN <<0, 0, 0, 0>> ELSE <<255, 255, 255, 255>>
    [] type = "s32" -> IF v < 0 THEN <<0, 0, 0, 128>> ELSE <<255, 255, 255, 127>>
    [] type = "s16" -> IF v < 0 THEN <<0, 128>> ELSE <<255, 127>>

\* What a conversion of an unrepresentable value may produce (undefined behaviour):
\* the low bytes of the wider conversion (a run-time conversion through a wider
\* register), or the nearest end of the type (a saturating instruction, or the
\* compiler's folding of a constant).  One build does one of them.
UBOutcomes == {"wrap", "saturate"}

\* v_s16_t x(q), v_s32_t x(q), v_u32_t x(q): the initialisation of an integer
\* from a floating value, as the bytes of the integer (least significant first).
FloatToInt(q, type, ub) ==
  LET v == Trunc(q)
  IN  IF Representable(v, type) \/ ub = "wrap"
      THEN Digits(v, Width(type))
      ELSE Saturated(v, type)

Reverse(s) == [i \in 1..Len(s) |-> s[Len(s) + 1 - i]]

\* The object representation of an integer on the host: *(T *)p = x and (char *)&x
host_mem(digits, le) == IF le THEN digits ELSE Reverse(digits)

\* util/endian.h le_char4_2_num<NumberT>(c): the number whose little-endian bytes
\* start at c, as a NumberT of w bytes
le_char4_2_num(bytes, w) == SubSeq(bytes, 1, w)

\* *(T *)(&buf[off]) = le_char4_2_num<T>(*(const char *)&x): the bytes stored
\* (buf is taken to be aligned well enough for the host's 2- and 4-byte stores).
\* For a v_s16_t x the 4 bytes read run 2 bytes past x: `junk` is what lies there.
Field(digits, le, junk) ==
  LET w == Len(digits)
      read == IF w = 4 THEN host_mem(digits, le) ELSE host_mem(digits, le) \o junk
  IN  host_mem(le_char4_2_num(read, w), le)

JunkBytes == {<<0, 0>>, <<255, 1>>}

\* 'N'
CharN == 78

\* NAVData::encode_N0: the stores to buf, in order, each <<offset, bytes>>
N0_stores_no_buf3(t, n, le, ub, junk) ==
  << <<0, <<CharN>>>>, <<1, <<0>>>>, <<2, <<0>>>>,
     <<4, Field(FloatToInt(QMul(t, 1000), "u32", ub), le, junk)>>,
     <<8, Field(FloatToInt(QMul(rad2deg(n.latitude), 10000000), "s32", ub), le, junk)>>,
     <<12, Field(FloatToInt(QMul(rad2deg(n.longitude), 10000000), "s32", ub), le, junk)>>,
     <<16, Field(FloatToInt(QMul(n.height, 10000), "s32", ub), le, junk)>>,
     <<20, Field(FloatToInt(QMul(n.v_north, 100), "s16", ub), le, junk)>>,
     <<22, Field(FloatToInt(QMul(n.v_east, 100), "s16", ub), le, junk)>>,
     <<24, Field(FloatToInt(QMul(n.v_down, 100), "s16", ub), le, junk)>>,
     <<26, Field(FloatToInt(QMul(rad2deg(n.heading), 100), "s16", ub), le, junk)>>,
     <<28, Field(FloatToInt(QMul(rad2deg(n.euler_theta), 100), "s16", ub), le, junk)>>,
     <<30, Field(FloatToInt(QMul(rad2deg(n.euler_phi), 100), "s16", ub), le, junk)>> >>

N0_stores_lat_lng_swapped(t, n, le, ub, junk) ==
  << <<0, <<CharN>>>>, <<1, <<0>>>>, <<2, <<0>>>>, <<3, <<0>>>>,
     <<4, Field(FloatToInt(QMul(t, 1000), "u32", ub), le, junk)>>,
     <<8, Field(FloatToInt(QMul(rad2deg(n.longitude), 10000000), "s32", ub), le, junk)>>,
     <<12, Field(FloatToInt(QMul(rad2deg(n.latitude), 10000000), "s32", ub), le, junk)>>,
     <<16, Field(FloatToInt(QMul(n.height, 10000), "s32", ub), le, junk)>>,
     <<20, Field(FloatToInt(QMul(n.v_north, 100), "s16", ub), le, junk)>>,
     <<22, Field(FloatToInt(QMul(n.v_east, 100), "s16", ub), le, junk)>>,
     <<24, Field(FloatToInt(QMul(n.v_down, 100), "s16", ub), le, junk)>>,
     <<26, Field(FloatToInt(QMul(rad2deg(n.heading), 100), "s16", ub), le, junk)>>,
     <<28, Field(FloatToInt(QMul(rad2deg(n.euler_theta), 100), "s16", ub), le, junk)>>,
     <<30, Field(FloatToInt(QMul(rad2deg(n.euler_phi), 100), "s16", ub), le, junk)>> >>

N0_stores_pitch_roll_swapped(t, n, le, ub, junk) ==
  << <<0, <<CharN>>>>, <<1, <<0>>>>, <<2, <<0>>>>, <<3, <<0>>>>,
     <<4, Field(FloatToInt(QMul(t, 1000), "u32", ub), le, junk)>>,
     <<8, Field(FloatToInt(QMul(rad2deg(n.latitude), 10000000), "s32", ub), le, junk)>>,
     <<12, Field(FloatToInt(QMul(rad2deg(n.longitude), 10000000), "s32", ub), le, junk)>>,
     <<16, Field(FloatToInt(QMul(n.height, 10000), "s32", ub), le, junk)>>,
     <<20, Field(FloatToInt(QMul(n.v_north, 100), "s16", ub), le, junk)>>,
     <<22, Field(FloatToInt(QMul(n.v_east, 100), "s16", ub), le, junk)>>,
     <<24, Field(FloatToInt(QMul(n.v_down, 100), "s16", ub), le, junk)>>,
     <<26, Field(FloatToInt(QMul(rad2deg(n.heading), 100), "s16", ub), le, junk)>>,
     <<28, Field(FloatToInt(QMul(rad2deg(n.euler_phi), 100), "s16", ub), le, junk)>>,
     <<30, Field(FloatToInt(QMul(rad2deg(n.euler_theta), 100), "s16", ub), le, junk)>> >>

N0_stores_reserved_kept(t, n, le, ub, junk) ==
  << <<0, <<CharN>>>>,
     <<4, Field(FloatToInt(QMul(t, 1000), "u32", ub), le, junk)>>,
     <<8, Field(FloatToInt(QMul(rad2deg(n.latitude), 10000000), "s32", ub), le, junk)>>,
     <<12, Field(FloatToInt(QMul(rad2deg(n.longitude), 10000000), "s32", ub), le, junk)>>,
     <<16, Field(FloatToInt(QMul(n.height, 10000), "s32", ub), le, junk)>>,
     <<20, Field(FloatToInt(QMul(n.v_north, 100), "s16", ub), le, junk)>>,
     <<22, Field(FloatToInt(QMul(n.v_east, 100), "s16", ub), le, junk)>>,
     <<24, Field(FloatToInt(QMul(n.v_down, 100), "s16", ub), le, junk)>>,
     <<26, Field(FloatToInt(QMul(rad2deg(n.heading), 100), "s16", ub), le, junk)>>,
     <<28, Field(FloatToInt(QMul(rad2deg(n.euler_theta), 100), "s16", ub), le, junk)>>,
     <<30, Field(FloatToInt(QMul(rad2deg(n.euler_phi), 100), "s16", ub), le, junk)>> >>

N0_stores_time_in_seconds(t, n, le, ub, junk) ==
  << <<0, <<CharN>>>>, <<1, <<0>>>>, <<2, <<0>>>>, <<3, <<0>>>>,
     <<4, Field(FloatToInt(t, "u32", ub), le, junk)>>,
     <<8, Field(FloatToInt(QMul(rad2deg(n.latitude), 10000000), "s32", ub), le, junk)>>,
     <<12, Field(FloatToInt(QMul(rad2deg(n.longitude), 10000000), "s32", ub), le, junk)>>,
     <<16, Field(FloatToInt(QMul(n.height, 10000), "s32", ub), le, junk)>>,
     <<20, Field(FloatToInt(QMul(n.v_north, 100), "s16", ub), le, junk)>>,
     <<22, Field(FloatToInt(QMul(n.v_east, 100), "s16", ub), le, junk)>>,
     <<24, Field(FloatToInt(QMul(n.v_down, 100), "s16", ub), le, junk)>>,
     <<26, Field(FloatToInt(QMul(rad2deg(n.heading), 100), "s16", ub), le, junk)>>,
     <<28, Field(FloatToInt(QMul(rad2deg(n.euler_theta), 100), "s16", ub), le, junk)>>,
     <<30, Field(FloatToInt(QMul(rad2deg(n.euler_phi), 100), "s16", ub), le, junk)>> >>

N0_stores(t, n, le, ub, junk) ==
  << <<0, <<CharN>>>>, <<1, <<0>>>>, <<2, <<0>>>>, <<3, <<0>>>>,
     <<4, Field(FloatToInt(QMul(t, 1000), "u32", ub), le, junk)>>,
     <<8, Field(FloatToInt(QMul(rad2deg(n.latitude), 10000000), "s32", ub), le, junk)>>,
     <<12, Field(FloatToInt(QMul(rad2deg(n.longitude), 10000000), "s32", ub), le, junk)>>,
     <<16, Field(FloatToInt(QMul(n.height, 10000), "s32", ub), le, junk)>>,
     <<20, Field(FloatToInt(QMul(n.v_north, 100), "s16", ub), le, junk)>>,
     <<22, Field(FloatToInt(QMul(n.v_east, 100), "s16", ub), le, junk)>>,
     <<24, Field(FloatToInt(QMul(n.v_down, 100), "s16", ub), le, junk)>>,
     <<26, Field(FloatToInt(QMul(rad2deg(n.heading), 100), "s16", ub), le, junk)>>,
     <<28, Field(FloatToInt(QMul(rad2deg(n.euler_theta), 100), "s16", ub), le, junk)>>,
     <<30, Field(FloatToInt(QMul(rad2deg(n.euler_phi), 100), "s16", ub), le, junk)>> >>

\* Offsets a sequence of stores writes to
StoredOffsets(stores) ==
  UNION {{stores[k][1] + j - 1 : j \in 1..Len(stores[k][2])} : k \in 1..Len(stores)}

\* buf after the stores (buf[i] of the model is buf[i - 1] of the code); the
\* stores of encode_N0 do not overlap
ApplyStores(b, stores) ==
  [i \in 1..Len(b) |->
     IF \E k \in 1..Len(stores) :
          i - 1 >= stores[k][1] /\ i - 1 < stores[k][1] + Len(stores[k][2])
     THEN LET k == CHOOSE k \in 1..Len(stores) :
                     i - 1 >= stores[k][1] /\ i - 1 < stores[k][1] + Len(stores[k][2])
          IN  stores[k][2][i - stores[k][1]]
     ELSE b[i]]

encode_N0 ==
  \E junk \in JunkBytes :
    LET stores == N0_stores(itow, nav, host_le, conv_ub, junk)
    IN  /\ buf' = ApplyStores(buf, stores)
        /\ written' = StoredOffsets(stores)
        /\ UNCHANGED <<nav, itow, host_le, conv_ub, ref>>
        /\ UNCHANGED poolvars

(* The values the navigation view and the caller supply *)

Nav(la, lo, h, vn, ve, vd, psi, theta, phi) ==
  [latitude |-> la, longitude |-> lo, height |-> h,
   v_north |-> vn, v_east |-> ve, v_down |-> vd,
   heading |-> psi, euler_theta |-> theta, euler_phi |-> phi]

NavStates ==
  { \* 10 deg, -20 deg, 100 m, 1.23 m/s, heading 45 deg
    Nav(Q(1, 18), Q(-1, 9), Q(100, 1), Q(123, 100), Q(-5, 1), Q(1, 3),
        Q(1, 4), Q(-1, 18), Q(1, 36)),
    \* scaled values with a fraction, of both signs
    Nav(Q(-1, 7), Q(1, 7), Q(-123456, 100000), Q(-1, 3), Q(2, 3), Q(-7, 2),
        Q(1, 7), Q(1, 7), Q(-1, 7)),
    \* the ends of the ranges: -90 deg, 180 deg, 16-bit fields at their limits
    Nav(Q(-1, 2), Q(1, 1), Q(0, 1), Q(32767, 100), Q(-32768, 100), Q(0, 1),
        Q(-1, 1), Q(1, 2), Q(-1, 2)),
    \* 16-bit fields past their range: 400 m/s, heading 359 deg
    Nav(Q(1, 18), Q(1, 7), Q(100, 1), Q(400, 1), Q(-400, 1), Q(1, 3),
        Q(359, 180), Q(-1, 18), Q(1, 36)),
    Nav(Q(0, 1), Q(0, 1), Q(0, 1), Q(0, 1), Q(0, 1), Q(0, 1),
        Q(0, 1), Q(0, 1), Q(0, 1)) }

Times == {Q(12345, 1000), Q(1, 3), Q(-1, 1), Q(1209599999, 2000)}

\* The navigation view and the time stamp change between two encode calls.
NavUpdateTo(navs, times) ==
  /\ written # {}
  /\ nav' \in navs
  /\ itow' \in times
  /\ written' = {}
  /\ UNCHANGED <<buf, host_le, conv_ub, ref>>
  /\ UNCHANGED poolvars

NavUpdate == NavUpdateTo(NavStates, Times)

----------------------------------------------------------------------------
(* Specification of the resolver and its pool *)

EmptyPool == [k \in {} |-> 0]

\* No copy taken yet
NoRef == [itow |-> Q(0, 1), nav |-> CHOOSE n \in NavStates : TRUE, buf |-> <<>>]

BufInit == [i \in 1..32 |-> 255]

Init ==
  /\ mem \in ArgvLayouts
  /\ iostream_pool = EmptyPool
  /\ heap = <<StdStream("cin"), StdStream("cout")>>
  /\ cerr = <<>>
  /\ status = "running"
  /\ exit_code = 0
  /\ calls = <<>>
  /\ nav = CHOOSE n \in NavStates : TRUE
  /\ itow = Q(0, 1)
  /\ buf = BufInit
  /\ host_le = TRUE
  /\ written = {}
  /\ conv_ub = "wrap"
  /\ ref = NoRef

Next ==
  \/ \E spec \in DOMAIN mem, force_fstream \in BOOLEAN : spec2istream(spec, force_fstream)
  \/ \E spec \in DOMAIN mem, force_fstream \in BOOLEAN : spec2ostream(spec, force_fstream)
  \/ Destructor

Spec == Init /\ [][Next]_vars

----------------------------------------------------------------------------
(* Specification of the encoder *)

InitEnc ==
  /\ mem = <<Buf(Dash)>>
  /\ iostream_pool = EmptyPool
  /\ heap = <<StdStream("cin"), StdStream("cout")>>
  /\ cerr = <<>>
  /\ status = "running"
  /\ exit_code = 0
  /\ calls = <<>>
  /\ nav \in NavStates
  /\ itow \in Times
  /\ buf \in {[i \in 1..32 |-> 255], [i \in 1..32 |-> 0]}
  /\ host_le \in BOOLEAN
  /\ written = {}
  /\ conv_ub \in UBOutcomes
  /\ ref = NoRef

NextEnc ==
  \/ encode_N0
  \/ NavUpdate

SpecEnc == InitEnc /\ [][NextEnc]_vars

----------------------------------------------------------------------------
(* Specification of the encoder called beside a pool in use: the caller hands
   encode_N0 a buffer of any previous content, and an observer keeps a copy of
   one call's inputs and packet to compare later calls with *)

\* What the caller's buffer may hold before a call
Garbage == {[i \in 1..32 |-> 255], [i \in 1..32 |-> 0]}

\* The example state and the state with 16-bit fields past their range
PureNavStates == {n \in NavStates : n.v_north \in {Q(123, 100), Q(400, 1)}}

PureTimes == {Q(12345, 1000)}

\* The caller reuses the buffer for something else between two calls.
BufClobber ==
  /\ buf' \in Garbage \ {buf}
  /\ written' = {}
  /\ UNCHANGED <<nav, itow, host_le, conv_ub, ref>>
  /\ UNCHANGED poolvars

\* The observer copies the inputs and the packet of the call just made.
Observe ==
  /\ written # {}
  /\ ref = NoRef
  /\ ref' = [itow |-> itow, nav |-> nav, buf |-> buf]
  /\ UNCHANGED <<nav, itow, buf, host_le, written, conv_ub>>
  /\ UNCHANGED poolvars

InitPure ==
  /\ mem = <<Buf(S_tty9600), Buf(S_file)>>
  /\ iostream_pool = EmptyPool
  /\ heap = <<StdStream("cin"), StdStream("cout")>>
  /\ cerr = <<>>
  /\ status = "running"
  /\ exit_code = 0
  /\ calls = <<>>
  /\ nav \in PureNavStates
  /\ itow \in PureTimes
  /\ buf \in Garbage
  /\ host_le \in BOOLEAN
  /\ written = {}
  /\ conv_ub \in UBOutcomes
  /\ ref = NoRef

NextPure ==
  \/ encode_N0
  \/ NavUpdateTo(PureNavStates, PureTimes)
  \/ BufClobber
  \/ Observe
  \/ \E spec \in DOMAIN mem, force_fstream \in BOOLEAN :
       Len(calls) < MaxPureCalls /\ spec2istream(spec, force_fstream)
  \/ \E spec \in DOMAIN mem, force_fstream \in BOOLEAN :
       Len(calls) < MaxPureCalls /\ spec2ostream(spec, force_fstream)

SpecPure == InitPure /\ [][NextPure]_vars

----------------------------------------------------------------------------
(* Properties of the resolver and its pool *)

LastCall(c) == c[Len(c)]

\* The step is a spec2istream / spec2ostream call
IsCallStep == Len(calls') = Len(calls) + 1

\* Streams created by a resolve call (everything after std::cin and std::cout)
Created == {i \in DOMAIN heap : i > COUT}

\* C1: two resolve calls of the same direction (and the same force_fstream) whose
\* specifier texts are equal and are not "-" return the same stream object.
C1_SameTextSameStream ==
  \A i \in DOMAIN calls, j \in DOMAIN calls :
    ( /\ i < j
      /\ calls[i].text = calls[j].text
      /\ calls[i].text # Dash
      /\ calls[i].fn = calls[j].fn
      /\ calls[i].force = calls[j].force
      /\ calls[i].ret # NoReturn
      /\ calls[j].ret # NoReturn )
    => calls[i].ret = calls[j].ret

\* C2: before teardown, no two streams that were opened and not released were
\* opened under the same specifier string (baud rate stripped).
C2_OneLiveStreamPerSpecifier ==
  status = "running" =>
    \A i \in Created, j \in Created :
      ( /\ i # j
        /\ ~heap[i].failed /\ ~heap[j].failed
        /\ heap[i].deleted = 0 /\ heap[j].deleted = 0 )
      => heap[i].name # heap[j].name

\* C3: after the destructor ran, every stream a resolve call created has been
\* flushed and deleted exactly once.
C3_TeardownReleasesEachOnce ==
  status = "destroyed" =>
    \A i \in Created : heap[i].flushed = 1 /\ heap[i].deleted = 1

\* C4: a call with the text "-" and force_fstream false returns std::cin
\* (spec2istream) or std::cout (spec2ostream) and leaves the pool, and every
\* stream object, as they were.
C4_DashReturnsStdAndKeepsPool ==
  [][ ( /\ IsCallStep
        /\ LastCall(calls').text = Dash
        /\ ~LastCall(calls').force )
      => ( /\ iostream_pool' = iostream_pool
           /\ heap' = heap
           /\ LastCall(calls').ret =
                IF LastCall(calls').fn = "spec2istream" THEN CIN ELSE COUT ) ]_vars

\* "-" was resolved for output, unforced, after another call had filled the pool.
C4_Witness ==
  /\ Len(calls) >= 2
  /\ LastCall(calls).text = Dash
  /\ ~LastCall(calls).force
  /\ LastCall(calls).fn = "spec2ostream"
  /\ LastCall(calls).ret = COUT
  /\ DOMAIN iostream_pool # {}

\* C5: no pool entry ever holds std::cin or std::cout, and neither is ever flushed
\* or deleted by the destructor.
C5_StdStreamsNeverPooled ==
  /\ \A k \in DOMAIN iostream_pool : iostream_pool[k] \notin {CIN, COUT}
  /\ heap[CIN] = StdStream("cin")
  /\ heap[COUT] = StdStream("cout")

\* The destructor ran after "-" had been resolved both forced (a pooled file named
\* "-") and unforced (the standard stream).
C5_Witness ==
  /\ status = "destroyed"
  /\ \E i \in DOMAIN calls : calls[i].text = Dash /\ calls[i].force
  /\ \E i \in DOMAIN calls : calls[i].text = Dash /\ ~calls[i].force
  /\ \E i \in Created : heap[i].name = Dash /\ heap[i].deleted = 1

\* C6: all the resolutions of one serial device name (with or without a baud rate,
\* in any direction) together create at most one stream for it.
C6_OneStreamPerSerialName ==
  status = "running" =>
    \A i \in Created, j \in Created :
      (i # j /\ heap[i].kind = "com" /\ heap[j].kind = "com")
      => heap[i].name # heap[j].name

\* The baud rate a specifier text of the layouts asks for
RequestedBaud(text) ==
  CASE text = S_tty9600 -> 9600
    [] text = S_tty19200 -> 19200
    [] OTHER -> 0

\* The step is a serial call with a baud rate, on a pointer absent from the pool,
\* and the device answered a rate different from the requested one.
BaudRejectedStep ==
  /\ IsCallStep
  /\ ~LastCall(calls').force
  /\ RequestedBaud(LastCall(calls').text) # 0
  /\ LastCall(calls').spec \notin DOMAIN iostream_pool
  /\ Len(heap') = Len(heap) + 1
  /\ LastCall(heap').baud # RequestedBaud(LastCall(calls').text)

\* C7: when the device rejects the baud rate of a serial specifier absent from the
\* pool, the diagnostic is written to std::cerr, the process exits with a non-zero
\* status, the call does not return and the pool gets no entry.
C7_UnsupportedBaudrateIsFatal ==
  [][ BaudRejectedStep
      => ( /\ status' = "exited"
           /\ exit_code' # 0
           /\ LastCall(calls').ret = NoReturn
           /\ iostream_pool' = iostream_pool
           /\ Len(cerr') = Len(cerr) + 4
           /\ cerr'[Len(cerr') - 1] = Lit(" => Unsupported baudrate!!") ) ]_vars

\* A serial specifier with a baud rate was resolved after other pool activity and the
\* device answered another rate.
C7_Witness ==
  /\ status = "exited"
  /\ Len(calls) >= 2
  /\ RequestedBaud(LastCall(calls).text) # 0
  /\ ~LastCall(calls).force
  /\ LastCall(heap).kind = "com"
  /\ LastCall(heap).baud # RequestedBaud(LastCall(calls).text)
  /\ DOMAIN iostream_pool # {}

\* The step is a spec2istream call that took the file branch and whose file could
\* not be opened.
OpenFailedStep ==
  /\ IsCallStep
  /\ LastCall(calls').fn = "spec2istream"
  /\ Len(heap') = Len(heap) + 1
  /\ LastCall(heap').kind = "file"
  /\ LastCall(heap').failed

\* C8: an input file that cannot be opened makes spec2istream write the diagnostic
\* to std::cerr and exit with a non-zero status; the call does not return and the
\* pool gets no entry.
C8_MissingInputFileIsFatal ==
  [][ OpenFailedStep
      => ( /\ status' = "exited"
           /\ exit_code' # 0
           /\ LastCall(calls').ret = NoReturn
           /\ iostream_pool' = iostream_pool
           /\ Len(cerr') = Len(cerr) + 3
           /\ cerr'[Len(cerr') - 1] = Lit(" => File not found!!") ) ]_vars

\* A file could not be opened for input after another stream had been pooled.
C8_Witness ==
  /\ status = "exited"
  /\ Len(calls) >= 2
  /\ LastCall(calls).fn = "spec2istream"
  /\ LastCall(calls).ret = NoReturn
  /\ LastCall(heap).kind = "file"
  /\ LastCall(heap).failed
  /\ DOMAIN iostream_pool # {}

----------------------------------------------------------------------------
(* Properties of the encoder *)

\* The signed 32-bit value whose little-endian bytes are at buf[off .. off + 3]
S32At(b, off) ==
  b[off + 1] + 256 * b[off + 2] + 65536 * b[off + 3]
    + 16777216 * (IF b[off + 4] >= 128 THEN b[off + 4] - 256 ELSE b[off + 4])

\* v is q with its fraction discarded (rounded toward zero)
IsTruncationOf(v, q) ==
  /\ Abs(v) <= Abs(q.n) \div q.d
  /\ IF q.n >= 0 THEN q.n - v * q.d \in 0..(q.d - 1)
     ELSE v * q.d - q.n \in 0..(q.d - 1)

\* C9: encode_N0 stores to all of buf[0..31], buf[0] is 'N', buf[1..3] are 0, and
\* nothing is reported and the process goes on.
C9_AllBytesWrittenHeaderFixed ==
  written # {} =>
    /\ written = 0..31
    /\ buf[1] = 78
    /\ buf[2] = 0 /\ buf[3] = 0 /\ buf[4] = 0
    /\ \A i \in 1..32 : buf[i] \in 0..255
    /\ status = "running" /\ exit_code = 0 /\ cerr = <<>>

\* An encode call was made with values beyond the 16-bit fields and a time stamp
\* below zero, over a buffer that held 0xFF everywhere.
C9_Witness ==
  /\ written # {}
  /\ nav.heading = Q(359, 180)
  /\ itow = Q(-1, 1)
  /\ buf[32] # 255

\* C10: the little-endian signed 32-bit values at offsets 8, 12 and 16 are the
\* latitude in degrees x 1e7, the longitude in degrees x 1e7 and the height in
\* metres x 1e4 (fraction discarded), on little- and big-endian hosts alike;
\* 10 deg, -20 deg, 100 m give 100000000, -200000000, 1000000.
C10_PositionFields ==
  written # {} =>
    /\ IsTruncationOf(S32At(buf, 8), QMul(QMul(nav.latitude, 180), 10000000))
    /\ IsTruncationOf(S32At(buf, 12), QMul(QMul(nav.longitude, 180), 10000000))
    /\ IsTruncationOf(S32At(buf, 16), QMul(nav.height, 10000))
    /\ nav.latitude = Q(1, 18) => S32At(buf, 8) = 100000000
    /\ nav.longitude = Q(-1, 9) => S32At(buf, 12) = -200000000
    /\ nav.height = Q(100, 1) => S32At(buf, 16) = 1000000

\* The example state was encoded on a big-endian host.
C10_Witness ==
  /\ written # {}
  /\ ~host_le
  /\ nav.latitude = Q(1, 18)
  /\ nav.longitude = Q(-1, 9)
  /\ nav.height = Q(100, 1)
  /\ S32At(buf, 12) = -200000000

\* The signed 16-bit value whose little-endian bytes are at buf[off], buf[off + 1]
S16At(b, off) ==
  b[off + 1] + 256 * (IF b[off + 2] >= 128 THEN b[off + 2] - 256 ELSE b[off + 2])

\* The truncation of q is a value of v_s16_t: -32769 < q < 32768
FitsS16(q) == q.n > -32769 * q.d /\ q.n < 32768 * q.d

\* The signed 16-bit field at off holds q with its fraction discarded, when that
\* is a value of the field
S16FieldIs(off, q) == FitsS16(q) => IsTruncationOf(S16At(buf, off), q)

\* C11: the little-endian signed 16-bit values at offsets 20, 22, 24 are the
\* velocities north, east, down in m/s x 100 and those at 26, 28, 30 are heading(),
\* euler_theta() and euler_phi() in degrees x 100, whenever the scaled value is in
\* the field's range; 1.23 m/s gives 123 at 20 and 45 deg gives 4500 at 26.
C11_VelocityAttitudeFields ==
  written # {} =>
    /\ S16FieldIs(20, QMul(nav.v_north, 100))
    /\ S16FieldIs(22, QMul(nav.v_east, 100))
    /\ S16FieldIs(24, QMul(nav.v_down, 100))
    /\ S16FieldIs(26, QMul(QMul(nav.heading, 180), 100))
    /\ S16FieldIs(28, QMul(QMul(nav.euler_theta, 180), 100))
    /\ S16FieldIs(30, QMul(QMul(nav.euler_phi, 180), 100))
    /\ nav.v_north = Q(123, 100) => S16At(buf, 20) = 123
    /\ nav.heading = Q(1, 4) => S16At(buf, 26) = 4500

\* The example state (pitch -10 deg, roll 5 deg) was encoded on a big-endian host.
C11_Witness ==
  /\ written # {}
  /\ ~host_le
  /\ nav.v_north = Q(123, 100)
  /\ nav.heading = Q(1, 4)
  /\ S16At(buf, 20) = 123
  /\ S16At(buf, 26) = 4500
  /\ S16At(buf, 28) = -1000
  /\ S16At(buf, 30) = 500

\* C12: for a time stamp that is not negative, the little-endian unsigned 32-bit
\* value at offset 4 is the time in seconds x 1000 (fraction discarded); 12.345 s
\* gives 12345.
C12_TimeField ==
  (written # {} /\ itow.n >= 0) =>
    /\ buf[8] < 128
    /\ IsTruncationOf(S32At(buf, 4), QMul(itow, 1000))
    /\ itow = Q(12345, 1000) => S32At(buf, 4) = 12345

\* 12.345 s was encoded on a big-endian host.
C12_Witness ==
  /\ written # {}
  /\ ~host_le
  /\ itow = Q(12345, 1000)
  /\ S32At(buf, 4) = 12345

\* The field of `type` at off holds the truncation toward zero of q, reduced
\* modulo 2^w
WrappedFieldIs(off, q, type) ==
  SubSeq(buf, off + 1, off + Width(type)) = Digits(Trunc(q), Width(type))

\* C13: every field holds its scaled quantity truncated toward zero and then
\* reduced modulo 2^16 or 2^32: a value outside the field's range wraps (heading
\* 359 deg is stored as 35900 - 65536), and nothing is reported.
C13_FieldsTruncateAndWrap ==
  written # {} =>
    /\ WrappedFieldIs(4, QMul(itow, 1000), "u32")
    /\ WrappedFieldIs(8, QMul(QMul(nav.latitude, 180), 10000000), "s32")
    /\ WrappedFieldIs(12, QMul(QMul(nav.longitude, 180), 10000000), "s32")
    /\ WrappedFieldIs(16, QMul(nav.height, 10000), "s32")
    /\ WrappedFieldIs(20, QMul(nav.v_north, 100), "s16")
    /\ WrappedFieldIs(22, QMul(nav.v_east, 100), "s16")
    /\ WrappedFieldIs(24, QMul(nav.v_down, 100), "s16")
    /\ WrappedFieldIs(26, QMul(QMul(nav.heading, 180), 100), "s16")
    /\ WrappedFieldIs(28, QMul(QMul(nav.euler_theta, 180), 100), "s16")
    /\ WrappedFieldIs(30, QMul(QMul(nav.euler_phi, 180), 100), "s16")
    /\ nav.heading = Q(359, 180) => S16At(buf, 26) = 35900 - 65536
    /\ status = "running" /\ cerr = <<>>

\* A step in which encode_N0 fills a buffer not yet filled for the present inputs
IsEncodeStep == written = {} /\ written' # {}

\* C14: encode_N0 is a function of the time stamp and the navigation values alone:
\* a call whose inputs equal those of the observed call yields the observed 32
\* bytes whatever the buffer held before, whatever was encoded in between and
\* whatever the pool holds, and a call changes neither the navigation values nor
\* the pool, the stream objects, the diagnostics or the process state.
C14_EncodeIsPure ==
  [][IsEncodeStep =>
       /\ nav' = nav /\ itow' = itow
       /\ poolvars' = poolvars
       /\ (ref.buf # <<>> /\ ref.itow = itow /\ ref.nav = nav) => buf' = ref.buf]_vars

\* The observed inputs (with fields past their range) were encoded again into the
\* other buffer content while the pool held a stream.
C14_Witness ==
  /\ written # {}
  /\ ref.buf # <<>>
  /\ ref.itow = itow /\ ref.nav = nav
  /\ nav.v_north = Q(400, 1)
  /\ buf = ref.buf
  /\ DOMAIN iostream_pool # {}

----------------------------------------------------------------------------
(* Properties of the pool, continued *)

\* C15: a resolve call leaves the characters of the specifier it is given as they
\* were: the text every call so far received is still the text at its pointer,
\* serial specifiers with ":<baudrate>" included.
C15_SpecifierTextUnchanged ==
  \A i \in DOMAIN calls : CStr(mem[calls[i].spec], 1) = calls[i].text

\* The characters of a serial specifier before its ':'
SerialName(text) ==
  IF strchr(text, ":") = 0 THEN text ELSE SubSeq(text, 1, strchr(text, ":") - 1)

\* The serial streams the pool holds for the name
PooledSerial(name) ==
  {iostream_pool[k] : k \in {x \in DOMAIN iostream_pool :
                               /\ heap[iostream_pool[x]].kind = "com"
                               /\ heap[iostream_pool[x]].name = name}}

\* C16: resolving "name:baud" while the pool holds a serial stream for name returns
\* that stream and applies no baud rate: no stream is created, the stream's rate
\* stays as it was and the process keeps running whatever the device supports.
C16_PooledNameIgnoresBaud ==
  [][ ( /\ IsCallStep
        /\ ~LastCall(calls').force
        /\ RequestedBaud(LastCall(calls').text) # 0
        /\ PooledSerial(SerialName(LastCall(calls').text)) # {} )
      => ( /\ LastCall(calls').ret \in PooledSerial(SerialName(LastCall(calls').text))
           /\ heap' = heap
           /\ status' = "running" ) ]_vars

\* The call is not one for the standard streams
NonStandard(c) == c.force \/ c.text # Dash

\* C17: when a specifier that is not "-" is resolved for one direction and next
\* for the other (same pointer, same force flag), both calls return the same
\* stream, and that stream is the pool's entry for it.
C17_OneChannelBothDirections ==
  \A i \in DOMAIN calls : \A j \in DOMAIN calls :
    ( /\ j = i + 1
      /\ calls[i].spec = calls[j].spec
      /\ calls[i].force = calls[j].force
      /\ calls[i].fn # calls[j].fn
      /\ NonStandard(calls[i]) /\ NonStandard(calls[j])
      /\ calls[i].ret # NoReturn /\ calls[j].ret # NoReturn )
    => ( /\ calls[i].ret = calls[j].ret
         /\ j = Len(calls) => iostream_pool[calls[j].spec] = calls[i].ret )

\* The text begins with COMPORT_PREFIX
HasPrefixAt0(text) ==
  /\ Len(text) >= Len(COMPORT_PREFIX)
  /\ SubSeq(text, 1, Len(COMPORT_PREFIX)) = COMPORT_PREFIX

\* How a specifier is to be resolved
ClassOf(text, force) ==
  IF force THEN "file"
  ELSE IF text = Dash THEN "std"
  ELSE IF HasPrefixAt0(text) THEN "serial"
  ELSE "file"

\* C18: a spec2ostream call for a file specifier never ends the process: whether
\* or not the file could be opened, the call creates one file stream, puts it in
\* the pool under the specifier and returns it.
C18_OutputFileNeverFatal ==
  [][ ( /\ IsCallStep
        /\ LastCall(calls').fn = "spec2ostream"
        /\ ClassOf(LastCall(calls').text, LastCall(calls').force) = "file" )
      => ( /\ status' = "running"
           /\ exit_code' = exit_code
           /\ Len(heap') = Len(heap) + 1
           /\ LastCall(heap').kind = "file"
           /\ LastCall(calls').ret = Len(heap')
           /\ LastCall(calls').spec \in DOMAIN iostream_pool'
           /\ iostream_pool'[LastCall(calls').spec] = Len(heap') ) ]_vars

\* An output file could not be opened; its stream was returned and is pooled, and
\* the process runs.
C18_Witness ==
  /\ status = "running"
  /\ calls # <<>>
  /\ LastCall(calls).fn = "spec2ostream"
  /\ LastCall(calls).ret # NoReturn
  /\ heap[LastCall(calls).ret].kind = "file"
  /\ heap[LastCall(calls).ret].failed
  /\ iostream_pool[LastCall(calls).spec] = LastCall(calls).ret

\* C19: every call falls in one class, decided in this order.  Without the force
\* flag: the text "-" gets the standard stream; a text with COMPORT_PREFIX at
\* position 0 is handled as a serial port (the pooled stream, or a new serial
\* stream named by the text before ':'); any other text (the prefix further in, or
\* '-' followed by more) is opened as a file.  With the force flag every text is
\* opened as a file under its whole text, which stays as it was, and the stream is
\* pooled under the specifier.
C19_ClassificationTotalAndOrdered ==
  [][ IsCallStep =>
      LET c == LastCall(calls')
          class == ClassOf(c.text, c.force)
      IN  /\ class = "std" =>
               /\ c.ret = (IF c.fn = "spec2istream" THEN CIN ELSE COUT)
               /\ heap' = heap /\ iostream_pool' = iostream_pool /\ mem' = mem
          /\ class = "serial" =>
               \/ /\ c.spec \in DOMAIN iostream_pool
                  /\ heap' = heap
                  /\ c.ret = iostream_pool[c.spec]
               \/ /\ c.spec \notin DOMAIN iostream_pool
                  /\ Len(heap') = Len(heap) + 1
                  /\ LastCall(heap').kind = "com"
                  /\ LastCall(heap').name = SerialName(c.text)
          /\ class = "file" =>
               /\ Len(heap') = Len(heap) + 1
               /\ LastCall(heap').kind = "file"
               /\ LastCall(heap').name = c.text
               /\ LastCall(heap').mode = (IF c.fn = "spec2istream" THEN "in" ELSE "out")
               /\ mem' = mem
               /\ status' = "running" =>
                    /\ c.ret = Len(heap')
                    /\ iostream_pool'[c.spec] = Len(heap') ]_vars

\* Files were opened for "x/dev/tty" without the force flag and, with it, for "-"
\* and for a serial specifier with its baud rate.
C19_Witness ==
  /\ status = "running"
  /\ \E i \in DOMAIN calls :
       /\ ~calls[i].force /\ calls[i].text = S_mid /\ calls[i].ret # NoReturn
       /\ heap[calls[i].ret].kind = "file" /\ heap[calls[i].ret].name = S_mid
  /\ \E i \in DOMAIN calls :
       /\ calls[i].force /\ calls[i].text = Dash /\ calls[i].ret # NoReturn
       /\ heap[calls[i].ret].kind = "file" /\ heap[calls[i].ret].name = Dash
  /\ \E i \in DOMAIN calls :
       /\ calls[i].force /\ calls[i].text = S_tty19200 /\ calls[i].ret # NoReturn
       /\ heap[calls[i].ret].kind = "file" /\ heap[calls[i].ret].name = S_tty19200
       /\ CStr(mem[calls[i].spec], 1) = S_tty19200

\* C20: before the destructor runs no stream object has been flushed or deleted:
\* every stream a call returned, one whose pool entry was overwritten included, is
\* still alive.
C20_NoReleaseBeforeTeardown ==
  status # "destroyed" =>
    /\ \A h \in Created : heap[h].flushed = 0 /\ heap[h].deleted = 0
    /\ \A i \in DOMAIN calls :
         calls[i].ret # NoReturn =>
           heap[calls[i].ret].flushed = 0 /\ heap[calls[i].ret].deleted = 0

\* A file stream was returned, its pool entry was overwritten by a later call on
\* the same pointer, and it is still alive.
C20_Witness ==
  /\ status = "running"
  /\ \E i \in DOMAIN calls : \E j \in DOMAIN calls :
       /\ i < j
       /\ calls[i].spec = calls[j].spec
       /\ calls[i].ret # NoReturn /\ calls[j].ret # NoReturn
       /\ calls[i].ret # calls[j].ret
       /\ heap[calls[i].ret].kind = "file"
       /\ iostream_pool[calls[j].spec] = calls[j].ret
       /\ heap[calls[i].ret].deleted = 0

====
